---------------------------- MODULE Spec2Model ----------------------------
(***************************************************************************)
(* Political-Evolution-Simulator: the generation loop of                   *)
(* DetailedElectionSim ("Political Simulation.py", Rule A, plurality) and  *)
(* of the prototype ElectionSim ("protoype.py", Rule B, coalition quota).  *)
(*                                                                         *)
(* Numbers.  The program computes on floats; the model computes on exact   *)
(* grids.  Ideologies are integers.  alpha is a multiple of 1/AlphaDen and *)
(* is stored as its numerator (0..AlphaDen is [0,1]).  TAU and PHI are in  *)
(* tenths, the two mutation standard deviations in hundredths.  A          *)
(* probability is a pair <<numerator, denominator>>.  Utilities are stored *)
(* multiplied by a positive factor that is the same for every utility one  *)
(* configuration computes, so comparisons and equalities are exact.        *)
(* Indices (voter ids, candidate ids, ballots, winner_idx) are 0-based as  *)
(* in the program; sequences are 1-based, so candidate cid is              *)
(* candidates[cid + 1].                                                    *)
(***************************************************************************)
EXTENDS Integers, Sequences, FiniteSets

VARIABLES
    variant,            \* "A": DetailedElectionSim, "B": prototype ElectionSim
    cfg,                \* the module-level parameters of the run
    voters,             \* self.voters
    candidates,         \* self.candidates
    gen,                \* number of completed iterations of the generation loop
    status,             \* "running", "done" (loop returned), "aborted" (exception)
    ballots,            \* ballots cast in the latest generation
    counts,             \* A: counts; B: coalition_sizes of the latest generation
    winner_idx,         \* winner_idx of the latest generation (-1 before the first)
    faced,              \* self.candidates as read by the voters of the latest generation
    formed,             \* B: the candidates after step 2 of the latest generation
    draws,              \* the normal draws of the latest generation's mutate calls
    vote_records,       \* A: per-voter records appended for the latest generation
    candidate_records   \* A: per-candidate records appended for the latest generation

vars == <<variant, cfg, voters, candidates, gen, status, ballots, counts,
          winner_idx, faced, formed, draws, vote_records, candidate_records>>

---------------------------------------------------------------------------
(* Parameters as shipped *)

N_VOTERS == 100
N_CANDIDATES == 4
RESOURCE_POOL == 1000
PUBLIC_GOODS_MUT_STD == 5
POLICY_MUT_STD == 2
THETA == 15
TAU == 6
PHI == 3
WINNING_COALITION_SIZE == 25
RATIO_OF_VOTERS == 50

\* np.clip bounds of Candidate.mutate in the two variants
IdeoMinDetailed == -100
IdeoMaxDetailed == 100
IdeoMinProto == 0
IdeoMaxProto == 100

\* np.random.uniform(0, 100) of the constructors
UniformHigh == 100

---------------------------------------------------------------------------
(* Bounds of the model *)

\* generations run by the small Rule A configurations
MaxGen == 2
\* a normal draw is k steps, k in -MaxDraw..MaxDraw
MaxDraw == 1
\* alpha is a multiple of 1/AlphaDen
AlphaDen == 2
\* one step of an ideology draw
IdeoStep == 60

---------------------------------------------------------------------------
(* Library functions, by what they compute *)

Abs(x) == IF x < 0 THEN -x ELSE x

Min(a, b) == IF a <= b THEN a ELSE b

Max(a, b) == IF a >= b THEN a ELSE b

\* the function f on 1..n as a list holding its n values
List(f) == SubSeq(f, 1, Len(f))

\* np.clip(x, lo, hi)
ClipNoUpper(x, lo, hi) == IF x < lo THEN lo ELSE x

Clip(x, lo, hi) == IF x < lo THEN lo ELSE IF x > hi THEN hi ELSE x

\* int(np.argmax(s)) of a non-empty sequence: 0-based index of the first maximum
ArgMaxLast(s) ==
    (CHOOSE i \in 1..Len(s) :
        /\ \A j \in 1..Len(s) : s[j] <= s[i]
        /\ \A j \in (i+1)..Len(s) : s[j] < s[i]) - 1

ArgMax(s) ==
    (CHOOSE i \in 1..Len(s) :
        /\ \A j \in 1..Len(s) : s[j] <= s[i]
        /\ \A j \in 1..(i-1) : s[j] < s[i]) - 1

\* np.bincount(b, minlength=m).tolist() of a sequence of indices >= 0
BinCountShifted(b, m) ==
    LET top == IF b = << >> THEN 0
               ELSE 1 + (CHOOSE x \in {b[i] : i \in 1..Len(b)} :
                            \A i \in 1..Len(b) : b[i] <= x)
    IN  List([k \in 1..Max(m, top) |-> Cardinality({i \in 1..Len(b) : b[i] = k})])

BinCount(b, m) ==
    LET top == IF b = << >> THEN 0
               ELSE 1 + (CHOOSE x \in {b[i] : i \in 1..Len(b)} :
                            \A i \in 1..Len(b) : b[i] <= x)
    IN  List([k \in 1..Max(m, top) |-> Cardinality({i \in 1..Len(b) : b[i] = k - 1})])

\* the values np.random.normal(0, std) can return, in steps; std < 0 raises
NormalSteps(std) == IF std = 0 THEN {0} ELSE (-MaxDraw)..MaxDraw

\* prob >= thresh, prob = <<num, den>> with den > 0, thresh in tenths
ProbAtLeast(prob, thresh) == prob[1] * 10 >= thresh * prob[2]

---------------------------------------------------------------------------
(* Rule A: Voter, Candidate and DetailedElectionSim of "Political Simulation.py" *)

\* coal_prob = WINNING_COALITION_SIZE / N_VOTERS
CoalProb(c) == <<c.WINNING_COALITION_SIZE, c.N_VOTERS>>

\* Voter.inclusion: the value stored in self.included[cid]
VoterInclusionDistanceOnly(c, v, coal_prob, cand_ideo) ==
    Abs(v.ideology - cand_ideo) <= c.THETA

VoterInclusion(c, v, coal_prob, cand_ideo) ==
    LET dist   == Abs(v.ideology - cand_ideo)
        thresh == IF v.risk_type = "risk" THEN c.TAU ELSE c.PHI
    IN  dist <= c.THETA /\ ProbAtLeast(coal_prob, thresh)

\* every utility of configuration c is stored multiplied by UtilityScale(c)
UtilityScale(c) == AlphaDen * c.N_VOTERS * c.WINNING_COALITION_SIZE

\* pay_ideo = (self.ideology - cand_ideo)**2
PayIdeo(c, v, cand_ideo) ==
    UtilityScale(c) * (v.ideology - cand_ideo) * (v.ideology - cand_ideo)

\* pay_public = cand_alpha * (RESOURCE_POOL / N_VOTERS)
PayPublic(c, cand_alpha) ==
    cand_alpha * c.RESOURCE_POOL * c.WINNING_COALITION_SIZE

\* pay_private = (1 - cand_alpha) * (RESOURCE_POOL / WINNING_COALITION_SIZE) if included
PayPrivate(c, cand_alpha, incl) ==
    IF incl THEN (AlphaDen - cand_alpha) * c.RESOURCE_POOL * c.N_VOTERS ELSE 0

\* Voter.utility, incl being self.included[cid]
VoterUtility(c, v, cand_ideo, cand_alpha, incl) ==
    PayIdeo(c, v, cand_ideo) + PayPublic(c, cand_alpha) + PayPrivate(c, cand_alpha, incl)

\* the voter loop of run_generation_detailed for one voter: v.included after the
\* inner loop, the utilities list, and the vote_info entry
Inclusions(c, v, cands) ==
    List([k \in 1..Len(cands) |-> VoterInclusion(c, v, CoalProb(c), cands[k].ideology)])

Utilities(c, v, cands, incl) ==
    List([k \in 1..Len(cands) |->
            VoterUtility(c, v, cands[k].ideology, cands[k].alpha, incl[k])])

InfoEntry(vid, v, utils, incl) ==
    [voter_id  |-> vid,
     risk_type |-> v.risk_type,
     utilities |-> utils,
     included  |-> incl,
     ballot    |-> ArgMax(utils)]

CastBallot(c, v, vid, cands) ==
    InfoEntry(vid, v, Utilities(c, v, cands, Inclusions(c, v, cands)),
              Inclusions(c, v, cands))

\* vote_info and ballots after the voter loop
VoteInfo(c, vs, cands) ==
    List([i \in 1..Len(vs) |-> CastBallot(c, vs[i], i - 1, cands)])

Ballots(info) == List([i \in 1..Len(info) |-> info[i].ballot])

\* Candidate.mutate with its two normal draws, da and di steps
MutateDetailed(cand, da, di) ==
    [ideology |-> Clip(cand.ideology + di * IdeoStep, IdeoMinDetailed, IdeoMaxDetailed),
     alpha    |-> Clip(cand.alpha + da, 0, AlphaDen)]

\* the replacement loop of run_generation_detailed; dr[k] = <<da, di>> for slot k
ReplaceLosersInPlace(cands, w, dr) ==
    [k \in 1..Len(cands) |->
        IF k - 1 # w
        THEN MutateDetailed(cands[w + 1], dr[k][1], dr[k][2])
        ELSE IF Len(cands) = 1 THEN cands[k]
             ELSE LET last == IF w + 1 = Len(cands) THEN Len(cands) - 1 ELSE Len(cands)
                  IN  MutateDetailed(cands[w + 1], dr[last][1], dr[last][2])]

ReplaceLosersFromSelf(cands, w, dr) ==
    [k \in 1..Len(cands) |->
        IF k - 1 # w
        THEN MutateDetailed(cands[k], dr[k][1], dr[k][2])
        ELSE cands[k]]

ReplaceLosers(cands, w, dr) ==
    [k \in 1..Len(cands) |->
        IF k - 1 # w
        THEN MutateDetailed(cands[w + 1], dr[k][1], dr[k][2])
        ELSE cands[k]]

\* the per-voter record run_simulation_detailed appends for one vote_info entry
VoteRecord(g, info, vs, cands, cnts, w) ==
    [generation     |-> g,
     voter_id       |-> info.voter_id,
     risk_type      |-> info.risk_type,
     voted_for      |-> info.ballot,
     voter_ideology |-> vs[info.voter_id + 1].ideology,
     vote_counts    |-> cnts,
     winner_idx     |-> w,
     cand_ideology  |-> List([k \in 1..Len(cands) |-> cands[k].ideology]),
     cand_alpha     |-> List([k \in 1..Len(cands) |-> cands[k].alpha]),
     cand_included  |-> List([k \in 1..Len(cands) |-> info.included[k]]),
     cand_utility   |-> List([k \in 1..Len(cands) |-> info.utilities[k]])]

\* the per-candidate record run_simulation_detailed appends
CandidateRecord(g, cid, cand, w) ==
    [generation   |-> g,
     candidate_id |-> cid,
     ideology     |-> cand.ideology,
     alpha        |-> cand.alpha,
     is_winner    |-> (cid = w)]

\* run_generation_detailed raises: np.argmax of an empty sequence, or
\* np.random.normal with a negative scale in the first mutate call
RaisesDetailed(c) ==
    \/ c.N_CANDIDATES <= 0
    \/ /\ c.N_CANDIDATES >= 2
       /\ (c.PUBLIC_GOODS_MUT_STD < 0 \/ c.POLICY_MUT_STD < 0)

---------------------------------------------------------------------------
(* Configurations and initial populations *)

\* the parameters of the script; its 200 generations are cut to one here, and to
\* MaxGen in the small configurations
Shipped ==
    [N_VOTERS               |-> N_VOTERS,
     N_CANDIDATES           |-> N_CANDIDATES,
     MAX_GENERATIONS        |-> 1,
     RESOURCE_POOL          |-> RESOURCE_POOL,
     PUBLIC_GOODS_MUT_STD   |-> PUBLIC_GOODS_MUT_STD,
     POLICY_MUT_STD         |-> POLICY_MUT_STD,
     THETA                  |-> THETA,
     TAU                    |-> TAU,
     PHI                    |-> PHI,
     WINNING_COALITION_SIZE |-> WINNING_COALITION_SIZE]

\* three voters, two candidates; 1/3 meets PHI and misses TAU
Small ==
    [Shipped EXCEPT !.N_VOTERS = 3, !.N_CANDIDATES = 2, !.MAX_GENERATIONS = MaxGen,
                    !.WINNING_COALITION_SIZE = 1]

Small1 == [Small EXCEPT !.MAX_GENERATIONS = 1]

\* the valid configurations run for MaxGen generations, and for one generation
LongConfigsA ==
    { Small,
      [Small EXCEPT !.RESOURCE_POOL = 0] }

ShortConfigsA ==
    { [Small1 EXCEPT !.N_CANDIDATES = 3],
      [Small1 EXCEPT !.N_CANDIDATES = 3, !.RESOURCE_POOL = 0],
      [Small1 EXCEPT !.N_CANDIDATES = 1],
      [Small1 EXCEPT !.POLICY_MUT_STD = 0],
      [Small1 EXCEPT !.N_VOTERS = 4, !.THETA = 100, !.TAU = 0, !.PHI = 0] }

\* the configurations the specification calls invalid
InvalidConfigsA ==
    { [Small1 EXCEPT !.N_CANDIDATES = 0],
      [Small1 EXCEPT !.N_VOTERS = 0],
      [Small1 EXCEPT !.THETA = -1],
      [Small1 EXCEPT !.PUBLIC_GOODS_MUT_STD = -5],
      [Small1 EXCEPT !.POLICY_MUT_STD = -2],
      [Small1 EXCEPT !.POLICY_MUT_STD = -2, !.N_CANDIDATES = 1],
      [Small1 EXCEPT !.WINNING_COALITION_SIZE = 4] }

\* voter i has ideology (i * stride + offset) mod 101, a value of uniform(0, 100)
VoterProfiles == { <<37, 5>>, <<10, 0>>, <<50, 0>> }

VoterIdeology(p, i) == (i * p[1] + p[2]) % (UniformHigh + 1)

\* candidate k has ideology (k * stride + offset) mod 101 and alpha
\* (k * astride + aoffset) mod (AlphaDen + 1), values of uniform(0, 100) and uniform(0, 1)
CandidateProfiles == { <<100, 0, 0, 1>>, <<0, 50, 0, 0>>, <<30, 10, 1, 0>>, <<0, 50, 1, 2>> }

CandidateIdeology(q, k) == (k * q[1] + q[2]) % (UniformHigh + 1)

CandidateAlpha(q, k) == (k * q[3] + q[4]) % (AlphaDen + 1)

Count(n) == IF n < 0 THEN 0 ELSE n

\* the runs of Rule A: <<configuration, voter profile, candidate profile>>
ScenariosA ==
    ({Shipped} \X {<<37, 5>>} \X {<<30, 10, 1, 0>>})
    \cup (LongConfigsA \X {<<37, 5>>, <<50, 0>>} \X {<<100, 0, 0, 1>>, <<30, 10, 1, 0>>})
    \cup ((ShortConfigsA \cup InvalidConfigsA) \X VoterProfiles \X CandidateProfiles)

\* DetailedElectionSim.__init__
InitDetailed ==
    \E sc \in ScenariosA :
        LET c == sc[1]
            p == sc[2]
            q == sc[3]
            n_safe == (Count(c.N_VOTERS) * RATIO_OF_VOTERS) \div 100
        IN  /\ variant = "A"
            /\ cfg = c
            /\ voters = [i \in 1..Count(c.N_VOTERS) |->
                            [ideology  |-> VoterIdeology(p, i - 1),
                             risk_type |-> IF i - 1 < n_safe THEN "safe" ELSE "risk",
                             included  |-> [k \in 1..Count(c.N_CANDIDATES) |-> FALSE]]]
            /\ candidates = [k \in 1..Count(c.N_CANDIDATES) |->
                                [ideology |-> CandidateIdeology(q, k - 1),
                                 alpha    |-> CandidateAlpha(q, k - 1)]]
            /\ gen = 0
            /\ status = "running"
            /\ ballots = << >>
            /\ counts = << >>
            /\ winner_idx = -1
            /\ faced = << >>
            /\ formed = << >>
            /\ draws = << >>
            /\ vote_records = << >>
            /\ candidate_records = << >>

\* one iteration of the loop of run_simulation_detailed that completes:
\* run_generation_detailed, then the three appends
GenerationDetailed ==
    /\ variant = "A"
    /\ status = "running"
    /\ gen < cfg.MAX_GENERATIONS
    /\ ~RaisesDetailed(cfg)
    /\ \E info \in {VoteInfo(cfg, voters, candidates)} :
       \E b \in {Ballots(info)} :
       \E cnts \in {BinCount(b, cfg.N_CANDIDATES)} :
       \E w \in {ArgMax(cnts)} :
       \E dr \in [{k \in 1..Len(candidates) : k - 1 # w} ->
                    NormalSteps(cfg.PUBLIC_GOODS_MUT_STD) \X NormalSteps(cfg.POLICY_MUT_STD)] :
       \E new \in {List(ReplaceLosers(candidates, w, dr))} :
          /\ voters' = List([i \in 1..Len(voters) |->
                                [voters[i] EXCEPT !.included = info[i].included]])
          /\ candidates' = new
          /\ ballots' = b
          /\ counts' = cnts
          /\ winner_idx' = w
          /\ faced' = candidates
          /\ draws' = dr
          /\ candidate_records' =
                 List([k \in 1..Len(new) |-> CandidateRecord(gen, k - 1, new[k], w)])
          /\ vote_records' =
                 List([i \in 1..Len(info) |->
                          VoteRecord(gen, info[i], voters, new, cnts, w)])
    /\ gen' = gen + 1
    /\ UNCHANGED <<variant, cfg, status, formed>>

\* the iteration in which run_generation_detailed raises: the exception leaves
\* run_simulation_detailed and the script
GenerationDetailedRaises ==
    /\ variant = "A"
    /\ status = "running"
    /\ gen < cfg.MAX_GENERATIONS
    /\ RaisesDetailed(cfg)
    /\ voters' = IF cfg.N_CANDIDATES <= 0
                 THEN [i \in 1..Len(voters) |->
                          IF i = 1 THEN [voters[i] EXCEPT !.included = << >>] ELSE voters[i]]
                 ELSE [i \in 1..Len(voters) |->
                          [voters[i] EXCEPT !.included =
                              CastBallot(cfg, voters[i], i - 1, candidates).included]]
    /\ status' = "aborted"
    /\ UNCHANGED <<variant, cfg, candidates, gen, ballots, counts, winner_idx,
                   faced, formed, draws, vote_records, candidate_records>>

\* run_simulation_detailed leaves its loop and returns the three tables
ReturnDetailed ==
    /\ variant = "A"
    /\ status = "running"
    /\ gen >= cfg.MAX_GENERATIONS
    /\ status' = "done"
    /\ UNCHANGED <<variant, cfg, voters, candidates, gen, ballots, counts,
                   winner_idx, faced, formed, draws, vote_records, candidate_records>>

---------------------------------------------------------------------------
(* Rule B: Voter, Candidate and ElectionSim of "protoype.py" *)

\* coalition_prob = len(winning_coalition) / N_VOTERS if winning_coalition else 1/N_VOTERS
ProtoCoalitionProb(c, cand) ==
    IF cand.winning_coalition # {}
    THEN <<Cardinality(cand.winning_coalition), c.N_VOTERS>>
    ELSE <<1, c.N_VOTERS>>

\* Voter.inclusion
ProtoInclusion(c, v, cand, coalition_prob) ==
    LET max_dist  == c.THETA
        threshold == IF v.risk_type = "risk" THEN c.TAU ELSE c.PHI
    IN  Abs(v.ideology - cand.policy) <= max_dist /\ ProbAtLeast(coalition_prob, threshold)

\* Voter.utility, stored multiplied by AlphaDen * N_VOTERS
ProtoUtility(c, v, cand, coalition_prob, included) ==
    LET policy_loss    == -(AlphaDen * c.N_VOTERS
                              * (v.ideology - cand.policy) * (v.ideology - cand.policy))
        public_payoff  == cand.alpha * c.RESOURCE_POOL
        private_payoff == IF included THEN (AlphaDen - cand.alpha) * c.RESOURCE_POOL ELSE 0
    IN  policy_loss + public_payoff + private_payoff

\* step 1 of run_generation: the utilities of one voter and the ballots
ProtoUtilities(c, v, cands) ==
    List([k \in 1..Len(cands) |->
            ProtoUtility(c, v, cands[k], ProtoCoalitionProb(c, cands[k]),
                         ProtoInclusion(c, v, cands[k], ProtoCoalitionProb(c, cands[k])))])

ProtoBallots(c, vs, cands) ==
    List([i \in 1..Len(vs) |-> ArgMax(ProtoUtilities(c, vs[i], cands))])

\* step 2: candidate.supporters = {i for i, b in enumerate(ballots) if b == idx}
Supporters(b, idx) == {i \in 0..(Len(b) - 1) : b[i + 1] = idx}

\* coalition_size = int(0.5 * N_VOTERS)
CoalitionSize(c) == c.N_VOTERS \div 2

\* the sets set(supporters_list[:coalition_size]) can be after np.random.shuffle
CoalitionChoicesOffByOne(supp, coalition_size) ==
    {s \in SUBSET supp : Cardinality(s) = Min(Cardinality(supp), coalition_size + 1)}

CoalitionChoices(supp, coalition_size) ==
    {s \in SUBSET supp : Cardinality(s) = Min(Cardinality(supp), coalition_size)}

\* the candidates after step 2, wc[k] being the coalition drawn for candidate k - 1
FormCoalitions(cands, b, wc) ==
    List([k \in 1..Len(cands) |->
            [cands[k] EXCEPT !.supporters = Supporters(b, k - 1),
                             !.winning_coalition = wc[k]]])

\* step 3: coalition_sizes
CoalitionSizes(cands) ==
    List([k \in 1..Len(cands) |-> Cardinality(cands[k].winning_coalition)])

\* Candidate.mutate with its normal draws; no policy draw when mutate_policy is False
ProtoMutate(cand, da, di, mutate_policy) ==
    [policy   |-> Clip(IF mutate_policy THEN cand.policy + di * IdeoStep ELSE cand.policy,
                       IdeoMinProto, IdeoMaxProto),
     alpha    |-> Clip(cand.alpha + da, 0, AlphaDen),
     supporters        |-> {},
     winning_coalition |-> {}]

\* step 4: new_candidates = [winner] followed by mutated copies of the winner
ProtoReplace(c, cands, w, dr) ==
    [k \in 1..c.N_CANDIDATES |->
        IF k = 1 THEN cands[w + 1]
        ELSE ProtoMutate(cands[w + 1], dr[k][1], dr[k][2], c.mutate_policy)]

ProtoSmall ==
    [N_VOTERS             |-> 4,
     N_CANDIDATES         |-> 2,
     N_GENERATIONS        |-> 2,
     RESOURCE_POOL        |-> RESOURCE_POOL,
     PUBLIC_GOODS_MUT_STD |-> PUBLIC_GOODS_MUT_STD,
     POLICY_MUT_STD       |-> POLICY_MUT_STD,
     THETA                |-> THETA,
     TAU                  |-> TAU,
     PHI                  |-> PHI,
     mutate_policy        |-> TRUE]

\* the voters np.random.choice(['safe', 'risk']) makes risk-seeking
RiskSets(n) == { {}, 0..(n - 1), {i \in 0..(n - 1) : i % 2 = 1} }

\* the runs of Rule B: <<configuration, voter profile, candidate profile, risk-seekers>>
ScenariosB ==
    ({ProtoSmall} \X {<<10, 0>>, <<50, 0>>} \X {<<100, 0, 0, 1>>, <<30, 10, 1, 0>>}
        \X {{}, {1, 3}})
    \cup ({ [ProtoSmall EXCEPT !.N_CANDIDATES = 3, !.N_GENERATIONS = 1],
            [ProtoSmall EXCEPT !.mutate_policy = FALSE, !.N_GENERATIONS = 1] }
          \X VoterProfiles \X {<<100, 0, 0, 1>>, <<30, 10, 1, 0>>} \X RiskSets(4))

\* ElectionSim.__init__
InitProto ==
    \E sc \in ScenariosB :
      LET c     == sc[1]
          p     == sc[2]
          q     == sc[3]
          risky == sc[4]
      IN
        /\ variant = "B"
        /\ cfg = c
        /\ voters = [i \in 1..c.N_VOTERS |->
                        [ideology  |-> VoterIdeology(p, i - 1),
                         risk_type |-> IF (i - 1) \in risky THEN "risk" ELSE "safe"]]
        /\ candidates = [k \in 1..c.N_CANDIDATES |->
                            [policy   |-> CandidateIdeology(q, k - 1),
                             alpha    |-> CandidateAlpha(q, k - 1),
                             supporters        |-> {},
                             winning_coalition |-> {}]]
        /\ gen = 0
        /\ status = "running"
        /\ ballots = << >>
        /\ counts = << >>
        /\ winner_idx = -1
        /\ faced = << >>
        /\ formed = << >>
        /\ draws = << >>
        /\ vote_records = << >>
        /\ candidate_records = << >>

\* one iteration of the loop of run_simulation: run_generation
GenerationProto ==
    /\ variant = "B"
    /\ status = "running"
    /\ gen < cfg.N_GENERATIONS
    /\ \E b \in {ProtoBallots(cfg, voters, candidates)} :
       \E wc \in {f \in [1..Len(candidates) -> SUBSET (0..(Len(voters) - 1))] :
                    \A k \in 1..Len(candidates) :
                        f[k] \in CoalitionChoices(Supporters(b, k - 1), CoalitionSize(cfg))} :
       \E fc \in {FormCoalitions(candidates, b, wc)} :
       \E sizes \in {CoalitionSizes(fc)} :
       \E w \in {ArgMax(sizes)} :
       \E dr \in [2..cfg.N_CANDIDATES ->
                    NormalSteps(cfg.PUBLIC_GOODS_MUT_STD)
                    \X (IF cfg.mutate_policy THEN NormalSteps(cfg.POLICY_MUT_STD) ELSE {0})] :
          /\ candidates' = List(ProtoReplace(cfg, fc, w, dr))
          /\ ballots' = b
          /\ formed' = fc
          /\ counts' = sizes
          /\ winner_idx' = w
          /\ faced' = candidates
          /\ draws' = dr
    /\ gen' = gen + 1
    /\ UNCHANGED <<variant, cfg, voters, status, vote_records, candidate_records>>

\* run_simulation leaves its loop and returns the history
ReturnProto ==
    /\ variant = "B"
    /\ status = "running"
    /\ gen >= cfg.N_GENERATIONS
    /\ status' = "done"
    /\ UNCHANGED <<variant, cfg, voters, candidates, gen, ballots, counts,
                   winner_idx, faced, formed, draws, vote_records, candidate_records>>

---------------------------------------------------------------------------

Init == InitDetailed \/ InitProto

Next ==
    \/ GenerationDetailed
    \/ GenerationDetailedRaises
    \/ ReturnDetailed
    \/ GenerationProto
    \/ ReturnProto

Spec == Init /\ [][Next]_vars

---------------------------------------------------------------------------
(* Properties *)

Detailed == variant = "A" /\ gen >= 1

Proto == variant = "B" /\ gen >= 1

RECURSIVE SumSeq(_)
SumSeq(s) == IF s = << >> THEN 0 ELSE s[1] + SumSeq(Tail(s))

\* C1: in every generation of Rule A every ballot is a candidate index in
\* 0..N_CANDIDATES-1, counts has length N_CANDIDATES, and the counts sum to N_VOTERS.
C1_TallyConsistent ==
    Detailed =>
        /\ Len(ballots) = cfg.N_VOTERS
        /\ \A i \in 1..Len(ballots) : ballots[i] \in 0..(cfg.N_CANDIDATES - 1)
        /\ Len(counts) = cfg.N_CANDIDATES
        /\ SumSeq(counts) = cfg.N_VOTERS

\* a generation with voters in which one candidate got no vote and another several
C1_Witness ==
    /\ Detailed
    /\ \E k \in 1..Len(counts) : counts[k] = 0
    /\ \E k \in 1..Len(counts) : counts[k] >= 2

\* C2: every candidate, at initialization and after any number of generations, has
\* alpha in [0,1] and its ideology in the variant's domain, [-100,100] in
\* DetailedElectionSim and [0,100] in the prototype, whatever the draws were.
C2_CandidateBounds ==
    \A k \in 1..Len(candidates) :
        /\ candidates[k].alpha >= 0
        /\ candidates[k].alpha <= AlphaDen
        /\ variant = "A" =>
              candidates[k].ideology >= -100 /\ candidates[k].ideology <= 100
        /\ variant = "B" =>
              candidates[k].policy >= 0 /\ candidates[k].policy <= 100

\* a mutate call whose draws pushed alpha past 1 from alpha = 1, and one whose
\* draw pushed the ideology past 100
C2_Witness ==
    /\ Detailed
    /\ faced[winner_idx + 1].alpha = AlphaDen
    /\ \E k \in DOMAIN draws : draws[k][1] > 0
    /\ \E k \in DOMAIN draws : faced[winner_idx + 1].ideology + draws[k][2] * IdeoStep > 100

\* C3: under Rule A the candidate at the winning index after the update has the
\* ideology and alpha it had when the generation's ballots were cast.
C3_WinnerPersists ==
    Detailed =>
        /\ winner_idx \in 0..(Len(candidates) - 1)
        /\ candidates[winner_idx + 1] = faced[winner_idx + 1]

\* a generation in which mutate was called and returned something else than the winner
C3_Witness ==
    /\ Detailed
    /\ \E k \in DOMAIN draws : candidates[k] # faced[winner_idx + 1]

\* C4: after every generation's update the population holds N_CANDIDATES candidates,
\* and every slot other than the winner's holds alpha = clamp(winner.alpha + draw, 0, 1)
\* and ideology = clamp(winner.ideology + draw, domainMin, domainMax) of that
\* generation's winner, each slot with its own draws.  The winner's slot is winner_idx
\* under Rule A and the first slot in the prototype, which rebuilds the list as
\* [winner, copies...].
C4_ElitistReplacement ==
    /\ Detailed =>
          /\ Len(candidates) = cfg.N_CANDIDATES
          /\ \A k \in 1..Len(candidates) :
                k - 1 # winner_idx =>
                   /\ k \in DOMAIN draws
                   /\ candidates[k].alpha =
                         Min(Max(faced[winner_idx + 1].alpha + draws[k][1], 0), AlphaDen)
                   /\ candidates[k].ideology =
                         Min(Max(faced[winner_idx + 1].ideology + draws[k][2] * IdeoStep,
                                 -100), 100)
    /\ Proto =>
          /\ Len(candidates) = cfg.N_CANDIDATES
          /\ candidates[1].policy = faced[winner_idx + 1].policy
          /\ candidates[1].alpha = faced[winner_idx + 1].alpha
          /\ \A k \in 2..Len(candidates) :
                /\ k \in DOMAIN draws
                /\ candidates[k].alpha =
                      Min(Max(faced[winner_idx + 1].alpha + draws[k][1], 0), AlphaDen)
                /\ candidates[k].policy =
                      Min(Max(faced[winner_idx + 1].policy + draws[k][2] * IdeoStep, 0), 100)

\* a second generation of Rule A, won by another slot than the first, in which a
\* loser's previous state differed from the winner and was replaced
C4_Witness ==
    /\ Detailed
    /\ gen = 2
    /\ winner_idx > 0
    /\ \E k \in DOMAIN draws : faced[k] # faced[winner_idx + 1] /\ candidates[k] # faced[k]

\* C5: each generation of Rule A yields one winner index, the lowest index among the
\* candidates whose count is the generation's maximum.
C5_WinnerLowestMax ==
    Detailed =>
        /\ winner_idx \in 0..(cfg.N_CANDIDATES - 1)
        /\ \A j \in 1..Len(counts) : counts[j] <= counts[winner_idx + 1]
        /\ \A j \in 1..winner_idx : counts[j] < counts[winner_idx + 1]

\* a generation with voters in which two candidates tie for the maximum count
C5_Witness ==
    /\ Detailed
    /\ cfg.N_VOTERS > 0
    /\ \E j \in 1..Len(counts) : j # winner_idx + 1 /\ counts[j] = counts[winner_idx + 1]

\* the configurations the specification calls invalid
InvalidConfig(c) ==
    \/ c.N_CANDIDATES < 1
    \/ c.N_VOTERS < 1
    \/ c.THETA < 0
    \/ c.PUBLIC_GOODS_MUT_STD < 0
    \/ c.POLICY_MUT_STD < 0
    \/ c.WINNING_COALITION_SIZE > c.N_VOTERS

\* the lowest index among the candidates nearest to ideology x
Nearest(x, cands) ==
    (CHOOSE k \in 1..Len(cands) :
        /\ \A j \in 1..Len(cands) :
              Abs(x - cands[k].ideology) <= Abs(x - cands[j].ideology)
        /\ \A j \in 1..(k - 1) :
              Abs(x - cands[k].ideology) < Abs(x - cands[j].ideology)) - 1

\* C6: with RESOURCE_POOL = 0 (and an otherwise valid configuration) the public and
\* private terms are zero and every ballot goes to the lowest-indexed candidate
\* nearest to the voter.
C6_NearestCandidateVoted ==
    (Detailed /\ ~InvalidConfig(cfg) /\ cfg.RESOURCE_POOL = 0) =>
        \A i \in 1..Len(voters) :
            /\ \A k \in 1..Len(faced) :
                  vote_records[i].cand_utility[k] =
                     PayIdeo(cfg, voters[i], faced[k].ideology)
            /\ ballots[i] = Nearest(voters[i].ideology, faced)

\* C7: in every generation of Rule B the supporters sets partition the voter indices
\* by ballot, each winning_coalition is a subset of the supporters of size
\* min(|supporters|, coalition size), and the winner is the lowest-indexed candidate
\* with the largest winning_coalition.
C7_CoalitionRule ==
    Proto =>
        /\ \A i \in 0..(cfg.N_VOTERS - 1) :
              \A k \in 1..Len(formed) :
                  (i \in formed[k].supporters) <=> (ballots[i + 1] = k - 1)
        /\ \A i \in 0..(cfg.N_VOTERS - 1) : ballots[i + 1] \in 0..(Len(formed) - 1)
        /\ \A k \in 1..Len(formed) :
              /\ formed[k].winning_coalition \subseteq formed[k].supporters
              /\ Cardinality(formed[k].winning_coalition) =
                    Min(Cardinality(formed[k].supporters), cfg.N_VOTERS \div 2)
              /\ counts[k] = Cardinality(formed[k].winning_coalition)
        /\ \A k \in 1..Len(formed) : counts[k] <= counts[winner_idx + 1]
        /\ \A k \in 1..winner_idx : counts[k] < counts[winner_idx + 1]
        /\ candidates[1].winning_coalition = formed[winner_idx + 1].winning_coalition

\* a generation in which a candidate had more supporters than the coalition size and
\* a candidate other than the first won
C7_Witness ==
    /\ Proto
    /\ winner_idx > 0
    /\ \E k \in 1..Len(formed) :
          Cardinality(formed[k].supporters) > Cardinality(formed[k].winning_coalition)

\* C8: under an invalid configuration the run aborts and no generation completes: no
\* winner is selected and no candidate is replaced.
C8_InvalidConfigAborts ==
    (variant = "A" /\ InvalidConfig(cfg)) =>
        /\ gen = 0
        /\ winner_idx = -1
        /\ status # "done"

\* C9: in every per-voter record of generation g the recorded utility and inclusion
\* of candidate c are those Voter.utility and Voter.inclusion give for the candidate
\* ideology and alpha stored in the same record, and the per-candidate records hold
\* the candidates voted on in g (stated for the valid configurations).
C9_RecordsShowFacedCandidates ==
    (Detailed /\ ~InvalidConfig(cfg)) =>
        /\ \A i \in 1..Len(vote_records) :
              \A k \in 1..Len(vote_records[i].cand_ideology) :
                 /\ vote_records[i].cand_included[k] =
                       VoterInclusion(cfg, voters[i], CoalProb(cfg),
                                      vote_records[i].cand_ideology[k])
                 /\ vote_records[i].cand_utility[k] =
                       VoterUtility(cfg, voters[i], vote_records[i].cand_ideology[k],
                                    vote_records[i].cand_alpha[k],
                                    vote_records[i].cand_included[k])
        /\ \A k \in 1..Len(candidate_records) :
              /\ candidate_records[k].ideology = faced[k].ideology
              /\ candidate_records[k].alpha = faced[k].alpha

\* the thresholds of the shipped Rule A configuration
ShippedQuota(c) ==
    /\ c.WINNING_COALITION_SIZE = 25
    /\ c.N_VOTERS = 100
    /\ c.PHI = 3
    /\ c.TAU = 6

\* C10: under the shipped Rule A configuration Voter.included is all-false for every
\* voter and candidate in every generation, whatever the ideological distance, and
\* the private-goods term of every computed utility is 0.
C10_ShippedNeverIncluded ==
    (Detailed /\ ShippedQuota(cfg)) =>
        \A i \in 1..Len(voters) :
            /\ Len(voters[i].included) = cfg.N_CANDIDATES
            /\ \A k \in 1..Len(faced) :
                  /\ voters[i].included[k] = FALSE
                  /\ vote_records[i].cand_included[k] = FALSE
                  /\ vote_records[i].cand_utility[k] =
                        PayIdeo(cfg, voters[i], faced[k].ideology)
                        + PayPublic(cfg, faced[k].alpha)

\* a generation of the shipped configuration with voters of both risk types within
\* THETA of a candidate, for whom only the quota keeps the inclusion flag false
C10_Witness ==
    /\ Detailed
    /\ ShippedQuota(cfg)
    /\ \E i \in 1..Len(voters), k \in 1..Len(faced) :
          /\ voters[i].risk_type = "safe"
          /\ Abs(voters[i].ideology - faced[k].ideology) <= cfg.THETA
    /\ \E i \in 1..Len(voters), k \in 1..Len(faced) :
          /\ voters[i].risk_type = "risk"
          /\ Abs(voters[i].ideology - faced[k].ideology) <= cfg.THETA

=============================================================================
